---- MODULE Spec2Model ----
(***************************************************************************)
(* Model of utest.py: a Streamlit page that narrates the Mann-Whitney U    *)
(* test.  Streamlit re-runs main() from the top after every widget         *)
(* interaction, so every action below is "one interaction + one complete   *)
(* run of main()"; the state is the widget state together with what the    *)
(* last run sent to the rendering sink.                                    *)
(*                                                                         *)
(* Units: pandas/numpy hold ranks, rank sums and U statistics as floats    *)
(* that are multiples of 0.01 after np.round(., 2).  The model holds them  *)
(* as integers counting hundredths (Rank = 750 is 7.50).                   *)
(***************************************************************************)
EXTENDS Integers, Sequences, FiniteSets

VARIABLES input_method, file, group_col, value_col, out, table, results, invoked

vars == <<input_method, file, group_col, value_col, out, table, results, invoked>>

-----------------------------------------------------------------------------
(* Bounds of the explored inputs *)

\* longest CSV enumerated exhaustively (every label/token combination)
MaxRows == 3

\* largest per-group size of the generated two-group CSVs
MaxGroup == 10

-----------------------------------------------------------------------------
(* Cells of a CSV: a text token or a number *)

Str(s) == [kind |-> "str", s |-> s, n |-> 0]
Num(n) == [kind |-> "num", s |-> "", n |-> n]
NaN == [kind |-> "nan", s |-> "", n |-> 0]

\* Python orders the one-letter labels used here by code point
LabelOrder == <<"A", "B", "C", "X", "Y">>

StrOrd(s) == CHOOSE i \in 1..Len(LabelOrder) : LabelOrder[i] = s

\* the `<` that sorted() applies to the labels of one column
CellLess(a, b) ==
    IF a.kind = "num" /\ b.kind = "num" THEN a.n < b.n
    ELSE a.kind = "str" /\ b.kind = "str" /\ StrOrd(a.s) < StrOrd(b.s)

Columns == <<"Group", "Value">>

Row(g, v) == [Group |-> g, Value |-> v]

NoFile == [present |-> FALSE]
File(rows) == [present |-> TRUE, rows |-> rows]

\* the built-in sample DataFrame
sample_data ==
    << Row(Str("A"), Num(20)), Row(Str("A"), Num(23)), Row(Str("B"), Num(25)),
       Row(Str("B"), Num(29)), Row(Str("B"), Num(30)), Row(Str("B"), Num(35)),
       Row(Str("A"), Num(39)), Row(Str("A"), Num(42)), Row(Str("B"), Num(42)),
       Row(Str("A"), Num(51)), Row(Str("A"), Num(57)), Row(Str("A"), Num(60)) >>

-----------------------------------------------------------------------------
(* Program constants *)

\* np.round(..., 2): ranks keep two decimals
Decimals == 2

\* `if n1 >= 10 or n2 >= 10`
SizeLimit == 10

\* critical_value = 1.96, in hundredths
critical_value == 196

-----------------------------------------------------------------------------
(* pandas / numpy / scipy helpers, as far as the page uses them *)

\* pd.to_numeric(., errors='coerce') on one cell
Coerce(c) == IF c.kind = "num" THEN c ELSE NaN

\* data[col] = pd.to_numeric(data[col], errors='coerce')
to_numeric(data, col) == [i \in DOMAIN data |-> [data[i] EXCEPT ![col] = Coerce(@)]]

\* data[col].isnull().any()
isnull_any(data, col) == \E i \in DOMAIN data : data[i][col].kind = "nan"

\* data[col].unique(), as a set
unique(data, col) == {data[i][col] : i \in DOMAIN data}

\* sorted(S): the element with k-1 smaller elements stands at place k
sorted(S) ==
    [k \in 1..Cardinality(S) |->
        CHOOSE x \in S : Cardinality({y \in S : CellLess(y, x)}) = k - 1]

\* sum(data[col] == g)
count_eq(data, col, g) == Cardinality({i \in DOMAIN data : data[i][col] = g})

\* place of element i in a stable ascending sort of the numbers a
argsort_pos(a, i) ==
    1 + Cardinality({j \in DOMAIN a : a[j] < a[i]})
      + Cardinality({j \in DOMAIN a : j < i /\ a[j] = a[i]})

\* variant: rankdata with method='min', every member of a block of equal
\* values gets the first place of the block
rankdata_min(a) ==
    [i \in DOMAIN a |->
        [num |-> 2 * (Cardinality({j \in DOMAIN a : a[j] < a[i]}) + 1), den |-> 2]]

\* scipy.stats.rankdata(a) with method='average': for every element the exact
\* rank as a fraction [num, den].  scipy sorts a, cuts the sorted array into
\* blocks of equal values and gives every member of a block
\* 0.5 * (count[dense] + count[dense - 1] + 1), where count[dense - 1] is the
\* 0-based start of its block (the number of smaller elements) and
\* count[dense] the 0-based start of the next block (the number of elements
\* that are not larger).
rankdata(a) ==
    [i \in DOMAIN a |->
        LET block_start == Cardinality({j \in DOMAIN a : a[j] < a[i]})
            next_start == Cardinality({j \in DOMAIN a : a[j] <= a[i]})
        IN  [num |-> next_start + block_start + 1, den |-> 2]]

Pow10(d) == IF d = 0 THEN 1 ELSE IF d = 1 THEN 10 ELSE 100

\* variant: np.round without the decimals argument, which rounds to whole
\* numbers (halves to the even neighbour)
np_round_whole(r, d) ==
    LET q == r.num \div r.den
        m == r.num % r.den
    IN  100 * (IF 2 * m < r.den THEN q
               ELSE IF 2 * m > r.den THEN q + 1
               ELSE IF q % 2 = 0 THEN q ELSE q + 1)

\* np.round(num/den, d) for a fraction >= 0: the nearest multiple of 10^-d,
\* halves to the even neighbour; the result is given in hundredths
np_round(r, d) ==
    LET scaled == r.num * Pow10(d)
        q == scaled \div r.den
        m == scaled % r.den
        n == IF 2 * m < r.den THEN q
             ELSE IF 2 * m > r.den THEN q + 1
             ELSE IF q % 2 = 0 THEN q ELSE q + 1
    IN  n * (100 \div Pow10(d))

-----------------------------------------------------------------------------
(* The rendering sink: every st.* call appends one section *)

Sec(tag, arg) == [tag |-> tag, arg |-> arg]

\* `results` when create_step_by_step_solution returned None or was not called
NoResult == [ok |-> FALSE]

\* df_ranked: one row per observation with its rounded rank (hundredths),
\* ordered by sort_values('Value')
ranked_table(data, gcol, vcol) ==
    LET a == [i \in DOMAIN data |-> data[i][vcol].n]
        rk == rankdata(a)
    IN  [p \in 1..Len(data) |->
            LET i == CHOOSE j \in DOMAIN data : argsort_pos(a, j) = p
            IN  [Group |-> data[i][gcol],
                 Value |-> a[i],
                 Rank |-> np_round(rk[i], Decimals)]]

RECURSIVE rank_sum(_, _)
\* df_ranked[df_ranked['Group'] == g]['Rank'].sum()
rank_sum(df_ranked, g) ==
    IF df_ranked = <<>> THEN 0
    ELSE (IF Head(df_ranked).Group = g THEN Head(df_ranked).Rank ELSE 0)
         + rank_sum(Tail(df_ranked), g)

\* variant: the triangular number of the other group's size
U1_of_n2(n1, n2, R1) == 100 * n1 * n2 + 50 * (n2 * (n2 + 1)) - R1

\* U1 = n1 * n2 + (n1 * (n1 + 1))/2 - R1, in hundredths
U1_of(n1, n2, R1) == 100 * n1 * n2 + 50 * (n1 * (n1 + 1)) - R1

\* U2 = n1 * n2 - U1, in hundredths
U2_of(n1, n2, U1) == 100 * n1 * n2 - U1

\* variant: max instead of min
U_of_max(U1, U2) == IF U2 > U1 THEN U2 ELSE U1

\* U = min(U1, U2)
U_of(U1, U2) == IF U2 < U1 THEN U2 ELSE U1

\* variant: Z without abs()
Z_of_noabs(n1, n2, U) ==
    [num |-> U - 50 * (n1 * n2), var12 |-> n1 * n2 * (n1 + n2 + 1)]

\* Z = abs(U - mu_U) / sigma_U with mu_U = n1*n2/2 and
\* sigma_U = sqrt(n1*n2*(n1+n2+1)/12).  The square root is not taken: Z is
\* kept as the pair (numerator abs(U - mu_U) in hundredths, 12 * sigma_U^2).
Z_of(n1, n2, U) ==
    LET mu_U == 50 * (n1 * n2)
        d == U - mu_U
    IN  [num |-> IF d < 0 THEN -d ELSE d,
         var12 |-> n1 * n2 * (n1 + n2 + 1)]

\* Z > c for a c >= 0 given in hundredths: Z must be positive and
\* num/100 / sqrt(var12/12) > c/100  <=>  12 * num^2 > c^2 * var12
Z_gt(Z, c) == Z.num > 0 /\ 12 * (Z.num * Z.num) > (c * c) * Z.var12

\* what create_step_by_step_solution emits before it looks at the data
preamble(vcol) ==
    << Sec("header", ""), Sec("hypotheses_heading", ""), Sec("H0", vcol),
       Sec("H1", vcol), Sec("alpha", ""), Sec("ranking_heading", "") >>

\* the sections between the size check and the decision
workings ==
    << Sec("ranking_caption", ""), Sec("ranking_table", ""), Sec("n1", ""),
       Sec("n2", ""), Sec("rank_sums_heading", ""), Sec("R1_label", ""),
       Sec("R1_addends", ""), Sec("R1", ""), Sec("R2_label", ""),
       Sec("R2_addends", ""), Sec("R2", ""), Sec("u_heading", ""),
       Sec("U1_caption", ""), Sec("U1_formula", ""), Sec("U2_caption", ""),
       Sec("U2_formula", ""), Sec("test_statistic_heading", ""), Sec("U", ""),
       Sec("z_heading", ""), Sec("Z", "") >>

\* the `if Z > critical_value` branch
decision(Z, vcol) ==
    IF Z_gt(Z, critical_value)
    THEN << Sec("reject_H0", ""), Sec("conclusion_different", vcol) >>
    ELSE << Sec("fail_to_reject_H0", ""), Sec("conclusion_not_different", vcol) >>

\* groups[0] / groups[1] raise IndexError when the list is too short
raises_IndexError(groups) == Len(groups) < 2

\* variant: `>` instead of `>=`
size_gate_strict(n1, n2) == n1 > SizeLimit \/ n2 > SizeLimit

\* `if n1 >= 10 or n2 >= 10`
size_gate(n1, n2) == n1 >= SizeLimit \/ n2 >= SizeLimit

\* what one call of create_step_by_step_solution leaves behind: the sections
\* it emitted, the table it showed, what it returned and whether it left by
\* an exception
Outcome(o, t, res, exc) == [out |-> o, table |-> t, result |-> res, raised |-> exc]

\* the U statistics, Z and the returned dictionary, from the sizes and rank sums
test_result(n1, n2, R1, R2) ==
    LET U1 == U1_of(n1, n2, R1)
        U2 == U2_of(n1, n2, U1)
        U == U_of(U1, U2)
    IN  [ok |-> TRUE, n1 |-> n1, n2 |-> n2, R1 |-> R1, R2 |-> R2,
         U1 |-> U1, U2 |-> U2, U |-> U, Z |-> Z_of(n1, n2, U)]

\* the narrated solution once the ranking table exists
narrate(vcol, df_ranked, res) ==
    Outcome(preamble(vcol) \o workings \o decision(res.Z, vcol), df_ranked, res, FALSE)

\* the function from the size check on
check_sizes(data, gcol, vcol, groups, n1, n2) ==
    IF size_gate(n1, n2)
    THEN Outcome(preamble(vcol) \o <<Sec("error_group_size", "")>>, <<>>, NoResult, FALSE)
    ELSE narrate(vcol, ranked_table(data, gcol, vcol),
                 test_result(n1, n2,
                             rank_sum(ranked_table(data, gcol, vcol), groups[1]),
                             rank_sum(ranked_table(data, gcol, vcol), groups[2])))

\* the function from the group sizes on; groups[0] and groups[1] of the code
\* are groups[1] and groups[2] here
count_groups(data, gcol, vcol, groups) ==
    IF raises_IndexError(groups)
    THEN Outcome(preamble(vcol), <<>>, NoResult, TRUE)
    ELSE check_sizes(data, gcol, vcol, groups,
                     count_eq(data, gcol, groups[1]), count_eq(data, gcol, groups[2]))

\* One call of create_step_by_step_solution(data, gcol, vcol)
create_step_by_step_solution(data, gcol, vcol) ==
    count_groups(data, gcol, vcol, sorted(unique(data, gcol)))

\* variant: .all() instead of .any()
non_numeric_all(rows, vcol) ==
    \A i \in DOMAIN rows : to_numeric(rows, vcol)[i][vcol].kind = "nan"

\* the value column holds a cell that is no number
non_numeric(rows, vcol) == isnull_any(to_numeric(rows, vcol), vcol)

\* the page of a run of main() that did not call the analysis
idle(o) == [out |-> o, table |-> <<>>, results |-> NoResult, invoked |-> FALSE]

\* the page of a run of main() that called the analysis with outcome r;
\* in_try says whether the call stands inside `try: ... except Exception`
analysed(o, r, in_try) ==
    [out |-> o \o r.out
             \o (IF r.raised /\ in_try
                 THEN <<Sec("error_exception", "list index out of range")>>
                 ELSE <<>>),
     table |-> r.table, results |-> r.result, invoked |-> TRUE]

\* One run of main() with the widgets in the given state; clicked says
\* whether st.button("Perform Analysis") returns True in this run.
main(method, f, gcol, vcol, clicked) ==
    LET top == << Sec("title", ""), Sec("intro", ""), Sec("radio", method) >>
    IN  IF method = "Upload CSV"
        THEN IF ~f.present
             THEN idle(top \o <<Sec("file_uploader", "")>>)
             ELSE
             LET sel == top \o << Sec("file_uploader", ""), Sec("select_prompt", ""),
                                  Sec("selectbox_group", gcol), Sec("selectbox_value", vcol) >>
             IN  IF non_numeric(f.rows, vcol)
                 THEN idle(sel \o <<Sec("error_non_numeric", vcol)>>)
                 ELSE IF ~clicked
                 THEN idle(sel \o <<Sec("button", "")>>)
                 ELSE analysed(sel \o <<Sec("button", "")>>,
                               create_step_by_step_solution(to_numeric(f.rows, vcol), gcol, vcol),
                               TRUE)
        ELSE
        LET smp == top \o << Sec("sample_caption", ""), Sec("sample_dataframe", ""),
                             Sec("button", "") >>
        IN  IF ~clicked
            THEN idle(smp)
            ELSE analysed(smp, create_step_by_step_solution(sample_data, "Group", "Value"),
                          FALSE)

-----------------------------------------------------------------------------
(* The CSV files a user may upload *)

Labels == {"A", "B", "C"}

\* cells of the Value column: two numbers and a token that is no number
Tokens == {Num(10), Num(20), Str("x")}

RowSet == {Row(Str(l), t) : l \in Labels, t \in Tokens}

\* every CSV of at most MaxRows rows over RowSet
SmallFiles == UNION {[1..n -> RowSet] : n \in 0..MaxRows}

\* a CSV with n1 rows of group A followed by n2 rows of group B whose values
\* are all tied (pat 1), all distinct and ascending (pat 2), or cycle through
\* three values (pat 3)
SizedRows(n1, n2, pat) ==
    [i \in 1..(n1 + n2) |->
        Row(Str(IF i <= n1 THEN "A" ELSE "B"),
            Num(CASE pat = 1 -> 1
                  [] pat = 2 -> i
                  [] OTHER -> (i % 3) + 1))]

SizedFiles == {SizedRows(n1, n2, pat) : n1 \in 0..MaxGroup, n2 \in 0..MaxGroup, pat \in 1..3}

\* Group X = [1,2,3], Group Y = [4,5,6]
scenario_B ==
    << Row(Str("X"), Num(1)), Row(Str("X"), Num(2)), Row(Str("X"), Num(3)),
       Row(Str("Y"), Num(4)), Row(Str("Y"), Num(5)), Row(Str("Y"), Num(6)) >>

\* values [10,10,10,20]
tie_example ==
    << Row(Str("A"), Num(10)), Row(Str("B"), Num(10)),
       Row(Str("A"), Num(10)), Row(Str("B"), Num(20)) >>

\* the built-in sample, saved as a CSV
sample_csv == sample_data

Files == SmallFiles \cup SizedFiles \cup {scenario_B, tie_example, sample_csv}

-----------------------------------------------------------------------------
(* State machine: one action per widget interaction, each followed by a    *)
(* complete re-run of main()                                               *)

\* the script runs and replaces everything the sink shows
Rerun(method, f, gcol, vcol, clicked) ==
    \E r \in {main(method, f, gcol, vcol, clicked)} :
        /\ out' = r.out
        /\ table' = r.table
        /\ results' = r.results
        /\ invoked' = r.invoked

\* st.button("Perform Analysis") is drawn in the current page
button_shown ==
    \/ input_method = "Use Sample Data"
    \/ /\ input_method = "Upload CSV"
       /\ file.present
       /\ ~non_numeric(file.rows, value_col)

\* first load of the page: the radio shows its first option, nothing uploaded
Init ==
    /\ input_method = "Upload CSV"
    /\ file = NoFile
    /\ group_col = Columns[1]
    /\ value_col = Columns[1]
    /\ \E r \in {main("Upload CSV", NoFile, Columns[1], Columns[1], FALSE)} :
           /\ out = r.out
           /\ table = r.table
           /\ results = r.results
           /\ invoked = r.invoked

\* the user flips the radio; widgets that are no longer drawn lose their state
SelectInputMethod(m) ==
    /\ m # input_method
    /\ input_method' = m
    /\ file' = NoFile
    /\ group_col' = Columns[1]
    /\ value_col' = Columns[1]
    /\ Rerun(m, NoFile, Columns[1], Columns[1], FALSE)

\* the user uploads a CSV; both selectboxes appear showing the first column
UploadFile ==
    /\ input_method = "Upload CSV"
    /\ ~file.present
    /\ \E rows \in Files :
        /\ file' = File(rows)
        /\ Rerun(input_method, File(rows), Columns[1], Columns[1], FALSE)
    /\ group_col' = Columns[1]
    /\ value_col' = Columns[1]
    /\ UNCHANGED input_method

\* the user removes the uploaded file
RemoveFile ==
    /\ input_method = "Upload CSV"
    /\ file.present
    /\ file' = NoFile
    /\ group_col' = Columns[1]
    /\ value_col' = Columns[1]
    /\ UNCHANGED input_method
    /\ Rerun(input_method, NoFile, Columns[1], Columns[1], FALSE)

\* the user picks another group column
SelectGroupCol(c) ==
    /\ input_method = "Upload CSV"
    /\ file.present
    /\ c # group_col
    /\ group_col' = c
    /\ UNCHANGED <<input_method, file, value_col>>
    /\ Rerun(input_method, file, c, value_col, FALSE)

\* the user picks another value column
SelectValueCol(c) ==
    /\ input_method = "Upload CSV"
    /\ file.present
    /\ c # value_col
    /\ value_col' = c
    /\ UNCHANGED <<input_method, file, group_col>>
    /\ Rerun(input_method, file, group_col, c, FALSE)

\* the user presses "Perform Analysis"
PerformAnalysis ==
    /\ button_shown
    /\ UNCHANGED <<input_method, file, group_col, value_col>>
    /\ Rerun(input_method, file, group_col, value_col, TRUE)

Next ==
    \/ \E m \in {"Upload CSV", "Use Sample Data"} : SelectInputMethod(m)
    \/ UploadFile
    \/ RemoveFile
    \/ \E c \in {Columns[1], Columns[2]} : SelectGroupCol(c)
    \/ \E c \in {Columns[1], Columns[2]} : SelectValueCol(c)
    \/ PerformAnalysis

Spec == Init /\ [][Next]_vars

-----------------------------------------------------------------------------
(* Vocabulary of the properties *)

\* the rows, the group column and the value column the current page works on
run_rows ==
    IF input_method # "Upload CSV" THEN sample_data
    ELSE IF file.present THEN file.rows ELSE <<>>
run_gcol == IF input_method = "Upload CSV" THEN group_col ELSE "Group"
run_vcol == IF input_method = "Upload CSV" THEN value_col ELSE "Value"

\* the distinct labels of the group column
run_labels == {run_rows[i][run_gcol] : i \in DOMAIN run_rows}

\* number of rows carrying label l
GroupSize(l) == Cardinality({i \in DOMAIN run_rows : run_rows[i][run_gcol] = l})

\* the last run showed a section with tag t
Shown(t) == \E k \in DOMAIN out : out[k].tag = t

\* how many sections with a tag in T the last run showed
HowMany(T) == Cardinality({k \in DOMAIN out : out[k].tag \in T})

ErrorTags == {"error_group_size", "error_exception", "error_non_numeric", "error_group_count"}

\* tags of the sections of a worked solution
ResultTags ==
    {preamble("")[k].tag : k \in DOMAIN preamble("")}
    \cup {workings[k].tag : k \in DOMAIN workings}
    \cup {"reject_H0", "conclusion_different", "fail_to_reject_H0", "conclusion_not_different"}

RECURSIVE SumOver(_, _)
\* sum of f[x] over the finite set S
SumOver(f, S) ==
    IF S = {} THEN 0
    ELSE LET x == CHOOSE y \in S : TRUE IN f[x] + SumOver(f, S \ {x})

-----------------------------------------------------------------------------
(* C1 *)

\* C1: a dataset whose group column holds a number of distinct labels other
\* than two is rejected with an error and yields no result (three labels do
\* not go through on the first two sorted labels).
C1_GroupCountRejected ==
    (invoked /\ Cardinality(run_labels) # 2)
        => (results = NoResult /\ HowMany(ErrorTags) >= 1)

-----------------------------------------------------------------------------
(* C2 *)

\* C2: with exactly two group labels, whenever a result is returned the rank
\* sums add up to N(N+1)/2 with N = n1 + n2 the number of observations
\* (sums are in hundredths, so 2*(R1+R2) = 100*N*(N+1)).
C2_RankSumIdentity ==
    (results.ok /\ Cardinality(run_labels) = 2)
        => /\ results.n1 + results.n2 = Len(run_rows)
           /\ 2 * (results.R1 + results.R2)
                = 100 * (Len(run_rows) * (Len(run_rows) + 1))

\* a two-label result whose table holds a value shared by both groups
C2_Witness ==
    /\ results.ok
    /\ Cardinality(run_labels) = 2
    /\ \E p, q \in DOMAIN table :
        table[p].Value = table[q].Value /\ table[p].Group # table[q].Group

-----------------------------------------------------------------------------
(* C3 *)

\* C3: whenever a result is returned, U1 + U2 = n1*n2, U1 >= 0, U2 >= 0 and
\* U = min(U1, U2).
C3_UIdentities ==
    results.ok
        => /\ results.U1 + results.U2 = 100 * (results.n1 * results.n2)
           /\ results.U1 >= 0
           /\ results.U2 >= 0
           /\ results.U <= results.U1
           /\ results.U <= results.U2
           /\ results.U \in {results.U1, results.U2}

\* the same identities restricted to datasets with exactly two labels
C3_TwoLabels == (Cardinality(run_labels) = 2) => C3_UIdentities

-----------------------------------------------------------------------------
(* C4 *)

\* C4: on a two-group dataset the run reports the group-size error and
\* returns no result exactly when one of the two groups has 10 or more
\* observations; otherwise (larger group of at most 9) it returns a result.
C4_SmallSampleGate ==
    (invoked /\ Cardinality(run_labels) = 2)
        => LET big == \E l \in run_labels : GroupSize(l) >= 10
           IN  /\ (Shown("error_group_size") /\ results = NoResult) <=> big
               /\ results.ok <=> ~big

\* a run on two groups, one of exactly 10 and one of 9 observations, that
\* ended in the group-size error
C4_Witness ==
    /\ invoked
    /\ Cardinality(run_labels) = 2
    /\ \E l \in run_labels : GroupSize(l) = 10
    /\ \E l \in run_labels : GroupSize(l) = 9
    /\ Shown("error_group_size")

\* a run on two groups whose larger group has exactly 9 observations passed
C4_NinePasses ==
    /\ results.ok
    /\ Cardinality(run_labels) = 2
    /\ \E l \in run_labels : GroupSize(l) = 9
    /\ \A l \in run_labels : GroupSize(l) <= 9

-----------------------------------------------------------------------------
(* C5 *)

\* the current page is a finished analysis of the built-in sample
sample_analysed == input_method = "Use Sample Data" /\ invoked

\* C5 as stated: on the built-in sample both 42s get midrank 7.5 and the run
\* returns U1 = 29 and U2 = 6.
C5_ScenarioA_Stated ==
    sample_analysed
        => /\ results.ok
           /\ \A p \in DOMAIN table : table[p].Value = 42 => table[p].Rank = 750
           /\ results.U1 = 2900
           /\ results.U2 = 600

\* C5 amended: on the built-in sample the two 42s stand at places 8 and 9 of
\* the ascending sort and get midrank 8.5; R1 = 51.5, R2 = 26.5 and the run
\* returns U1 = 11.5 and U2 = 23.5.
C5_ScenarioA ==
    sample_analysed
        => /\ results.ok
           /\ {p \in DOMAIN table : table[p].Value = 42} = {8, 9}
           /\ \A p \in DOMAIN table : table[p].Value = 42 => table[p].Rank = 850
           /\ results.n1 = 7 /\ results.n2 = 5
           /\ results.R1 = 5150 /\ results.R2 = 2650
           /\ results.U1 = 1150
           /\ results.U2 = 2350

C5_Witness == sample_analysed /\ results.ok /\ Len(table) = 12

-----------------------------------------------------------------------------
(* C6 *)

\* the places of the table that hold the same value as place p
Block(p) == {q \in DOMAIN table : table[q].Value = table[p].Value}

\* C6: the table lists all N observations in ascending order of value, and
\* every rank is exactly the mean of the places its block of equal values
\* occupies (Rank * |block| = 100 * sum of the places); so rounding changed
\* no rank and each rank sum is the sum of the exact midranks.
C6_Midrank ==
    results.ok
        => /\ Len(table) = Len(run_rows)
           /\ \A p, q \in DOMAIN table : p < q => table[p].Value <= table[q].Value
           /\ \A p \in DOMAIN table :
                table[p].Rank * Cardinality(Block(p))
                    = 100 * SumOver([q \in DOMAIN table |-> q], Block(p))
           /\ LET label == sorted(run_labels)
                  twice == [p \in DOMAIN table |->
                               (CHOOSE q \in Block(p) : \A r \in Block(p) : q <= r)
                               + (CHOOSE q \in Block(p) : \A r \in Block(p) : q >= r)]
                  of(l) == {p \in DOMAIN table : table[p].Group = l}
              IN  /\ 2 * results.R1 = 100 * SumOver(twice, of(label[1]))
                  /\ 2 * results.R2 = 100 * SumOver(twice, of(label[2]))

\* the values [10,10,10,20] were ranked [2,2,2,4]
C6_Witness ==
    /\ results.ok
    /\ [p \in DOMAIN table |-> table[p].Value] = <<10, 10, 10, 20>>
    /\ [p \in DOMAIN table |-> table[p].Rank] = <<200, 200, 200, 400>>

-----------------------------------------------------------------------------
(* C7 *)

\* C7: whenever a result is produced, twice U minus n1*n2 is a whole number
\* x, the run announces "reject H0" exactly when
\* 30000 * x^2 > 38416 * n1*n2*(n1+n2+1)  (that is, Z > 1.96), announces
\* "fail to reject H0" otherwise, and emits exactly one of the two.
C7_DecisionRule ==
    results.ok
        => LET twice == 2 * results.U - 100 * (results.n1 * results.n2)
               x == twice \div 100
               m == results.n1 * results.n2 * (results.n1 + results.n2 + 1)
               significant == 30000 * (x * x) > 38416 * m
           IN  /\ twice % 100 = 0
               /\ Shown("reject_H0") <=> significant
               /\ Shown("fail_to_reject_H0") <=> ~significant
               /\ HowMany({"reject_H0", "fail_to_reject_H0"}) = 1

\* a result whose run announced the rejection of H0
C7_Witness == results.ok /\ Shown("reject_H0") /\ results.U < results.U1

-----------------------------------------------------------------------------
(* C8 *)

\* the selected value column of the uploaded file holds a cell that is no number
bad_value_cell ==
    /\ input_method = "Upload CSV"
    /\ file.present
    /\ \E i \in DOMAIN file.rows : file.rows[i][value_col].kind # "num"

\* C8: while the selected value column of the upload holds a non-numeric
\* cell, the page shows the error naming that column, no analysis has run on
\* the dataset, none can be started, and there is no result.
C8_NonNumericBlocked ==
    bad_value_cell
        => /\ \E k \in DOMAIN out : out[k] = Sec("error_non_numeric", value_col)
           /\ ~invoked
           /\ ~Shown("button")
           /\ ~ENABLED PerformAnalysis
           /\ results = NoResult
           /\ HowMany(ResultTags) = 0

\* an upload whose Value column mixes numbers with a non-numeric token, with
\* Value selected as the value column and Group as the group column
C8_Witness ==
    /\ bad_value_cell
    /\ value_col = "Value"
    /\ group_col = "Group"
    /\ \E i \in DOMAIN file.rows : file.rows[i].Value.kind = "num"

-----------------------------------------------------------------------------
(* C9 *)

\* C9: when a run ends in an input error (group count other than two, or the
\* group-size violation), the error is its only output: no section of the
\* worked solution was emitted before it.
C9_ErrorIsOnlyOutput ==
    (invoked /\ (Shown("error_group_size") \/ Shown("error_exception")))
        => HowMany(ResultTags) = 0

-----------------------------------------------------------------------------
(* C10 *)

\* the current page is a finished analysis of Scenario B with X as group 1
scenario_B_analysed ==
    /\ input_method = "Upload CSV"
    /\ file = File(scenario_B)
    /\ group_col = "Group"
    /\ value_col = "Value"
    /\ invoked

\* C10 as stated: in Scenario B the U statistic of group X (U1) is 0 and H0
\* is rejected.
C10_ScenarioB_Stated ==
    scenario_B_analysed
        => results.ok /\ results.U1 = 0 /\ Shown("reject_H0")

\* C10 amended: in Scenario B, R1 = 6 and the U statistic of group X is
\* U1 = 9; U2 = 0 and the test statistic U = min(U1, U2) = 0; H0 is rejected.
C10_ScenarioB ==
    scenario_B_analysed
        => /\ results.ok
           /\ results.n1 = 3 /\ results.n2 = 3
           /\ results.R1 = 600
           /\ results.U1 = 900
           /\ results.U2 = 0
           /\ results.U = 0
           /\ Shown("reject_H0")
           /\ ~Shown("fail_to_reject_H0")

C10_Witness == scenario_B_analysed /\ results.ok /\ table[1].Group = Str("X")

====
